---------------------------- MODULE Spec2Model ----------------------------
(***************************************************************************)
(* A model of gplus/base_dao.go (gorm-plus): the data-access facade over   *)
(* a Query descriptor, the in-place finalize step buildCondition, and the  *)
(* pagination scope.  The store (gorm) is an external collaborator: every  *)
(* call the facade issues to it is recorded in `calls`, and its outcome    *)
(* (error, affected rows, rows) is chosen nondeterministically.            *)
(*                                                                         *)
(* Text (strings.Builder contents) is a sequence of tokens, "?" being the  *)
(* positional placeholder.  An argument is a sequence of values: a scalar  *)
(* is <<v>>, the value list of an IN predicate is the whole list.          *)
(***************************************************************************)
EXTENDS Integers, Sequences, FiniteSets, TLC

VARIABLES q, nFluent, calls, ret

vars == <<q, nFluent, calls, ret>>

---------------------------------------------------------------------------
(* Bounds of the model *)

\* fluent calls made on one descriptor before it is replaced by a new one
MaxFluent == 3
\* a descriptor is passed to the facade only while its argument list is this short
MaxArgs == 4

---------------------------------------------------------------------------
(* Go's int: two's complement, IntBits wide, little-endian base-256 limbs *)

IntBits == 64

NumLimbs == IntBits \div 8

RECURSIVE LimbsOf(_, _)
\* the k low limbs of the integer n
LimbsOf(n, k) ==
    IF k = 0 THEN <<>> ELSE <<n % 256>> \o LimbsOf(n \div 256, k - 1)

\* the Go int with value n
GoInt(n) == LimbsOf(n, NumLimbs)

IsNeg(a) == a[NumLimbs] >= 128

IsZero(a) == \A k \in 1..NumLimbs : a[k] = 0

\* a <= 0
LeZero(a) == IsNeg(a) \/ IsZero(a)

RECURSIVE Dec(_)
\* a - 1, wrapping
Dec(a) ==
    IF a = <<>> THEN <<>>
    ELSE IF Head(a) = 0 THEN <<255>> \o Dec(Tail(a))
    ELSE <<Head(a) - 1>> \o Tail(a)

RECURSIVE ColSum(_, _, _, _)
\* a[1] * b[k] + a[2] * b[k-1] + ... + a[i] * b[k+1-i]
ColSum(a, b, k, i) ==
    IF i = 0 THEN 0 ELSE a[i] * b[k + 1 - i] + ColSum(a, b, k, i - 1)

RECURSIVE MulFrom(_, _, _, _)
\* limbs k..Len(a) of the schoolbook product, carry coming from below
MulFrom(a, b, k, carry) ==
    IF k > Len(a) THEN <<>>
    ELSE LET t == ColSum(a, b, k, k) + carry
         IN  <<t % 256>> \o MulFrom(a, b, k + 1, t \div 256)

\* a * b, truncated to the width of a and b (Go's wrapping multiplication);
\* the operands are evaluated once
Mul(a, b) == CHOOSE r \in { MulFrom(x, y, 1, 0) : x \in {a}, y \in {b} } : TRUE

---------------------------------------------------------------------------
(* The Query descriptor and its fluent API *)

\* the predicates (column, operator, bound value) the fluent calls draw from
Preds ==
    { [col |-> "active", op |-> "=", val |-> "true"],
      [col |-> "age", op |-> ">", val |-> "18"],
      [col |-> "status", op |-> "=", val |-> "banned"] }

\* the rendered fragment of one predicate: one placeholder
Fragment(p) == <<p.col, p.op, "?">>

\* NewQuery: every builder and list empty
NewQuery ==
    [ DistinctColumns |-> <<>>, SelectColumns |-> <<>>,
      QueryBuilder |-> <<>>, QueryArgs |-> <<>>,
      AndBracketBuilder |-> <<>>, AndBracketArgs |-> <<>>,
      OrBracketBuilder |-> <<>>, OrBracketArgs |-> <<>>,
      OrderBuilder |-> <<>>, GroupBuilder |-> <<>>,
      HavingBuilder |-> <<>>, HavingArgs |-> <<>>,
      UpdateMap |-> <<>> ]

\* append one top-level predicate, joined to what is there by AND
AddCond(d, p) ==
    [d EXCEPT !.QueryBuilder =
                  @ \o (IF @ = <<>> THEN <<>> ELSE <<"AND">>) \o Fragment(p),
              !.QueryArgs = Append(@, <<p.val>>)]

\* a set-membership predicate: one placeholder that takes the whole list
InCond(d, column, values) ==
    [d EXCEPT !.QueryBuilder =
                  @ \o (IF @ = <<>> THEN <<>> ELSE <<"AND">>) \o <<column, "IN", "?">>,
              !.QueryArgs = Append(@, values)]

\* add a parenthesized group, led by its connector, to the AND-bracket builder
AndBracketCond(d, p) ==
    [d EXCEPT !.AndBracketBuilder = @ \o <<"AND", "(">> \o Fragment(p) \o <<")">>,
              !.AndBracketArgs = Append(@, <<p.val>>)]

\* add a parenthesized group, led by its connector, to the OR-bracket builder
OrBracketCond(d, p) ==
    [d EXCEPT !.OrBracketBuilder = @ \o <<"OR", "(">> \o Fragment(p) \o <<")">>,
              !.OrBracketArgs = Append(@, <<p.val>>)]

---------------------------------------------------------------------------
(* The statement a store handle carries, and buildCondition *)

\* no offset or limit set
NoInt == <<>>

\* gormDb.Model(new(T)): a fresh statement with no clause
ModelStmt ==
    [ distinct |-> <<>>, select |-> <<>>,
      hasWhere |-> FALSE, cond |-> <<>>, args |-> <<>>,
      order |-> <<>>, group |-> <<>>, having |-> <<>>, havingArgs |-> <<>>,
      offset |-> NoInt, limit |-> NoInt ]

\* db.Where(cond, args...)
Where(stmt, cond, args) ==
    [stmt EXCEPT !.hasWhere = TRUE, !.cond = cond, !.args = args]

\* the merge with the OR-bracket arguments put before the AND-bracket's
MergedArgsOrFirst(d) ==
    IF Len(d.QueryBuilder) > 0
    THEN [d EXCEPT !.QueryArgs = @ \o d.OrBracketArgs \o d.AndBracketArgs,
                   !.QueryBuilder = @ \o d.AndBracketBuilder \o d.OrBracketBuilder]
    ELSE d

\* the descriptor after the bracket merge of buildCondition
Merged(d) ==
    IF Len(d.QueryBuilder) > 0
    THEN LET a == IF Len(d.AndBracketBuilder) > 0
                  THEN [d EXCEPT !.QueryArgs = @ \o d.AndBracketArgs,
                                 !.QueryBuilder = @ \o d.AndBracketBuilder]
                  ELSE d
         IN  IF Len(a.OrBracketBuilder) > 0
             THEN [a EXCEPT !.QueryArgs = @ \o a.OrBracketArgs,
                            !.QueryBuilder = @ \o a.OrBracketBuilder]
             ELSE a
    ELSE d

\* buildCondition(q): the statement handed to the store, and q as it is left.
\* isNil: the caller passed a nil descriptor.
buildCondition(isNil, d) ==
    IF isNil THEN [q |-> d, db |-> ModelStmt]
    ELSE
      LET m  == Merged(d)
          s1 == IF Len(d.DistinctColumns) > 0
                THEN [ModelStmt EXCEPT !.distinct = d.DistinctColumns] ELSE ModelStmt
          s2 == IF Len(d.SelectColumns) > 0
                THEN [s1 EXCEPT !.select = d.SelectColumns] ELSE s1
          s3 == IF Len(d.QueryBuilder) > 0
                THEN Where(s2, m.QueryBuilder, m.QueryArgs) ELSE s2
          s4 == IF Len(d.OrderBuilder) > 0
                THEN [s3 EXCEPT !.order = d.OrderBuilder] ELSE s3
          s5 == IF Len(d.GroupBuilder) > 0
                THEN [s4 EXCEPT !.group = d.GroupBuilder] ELSE s4
          s6 == IF Len(d.HavingBuilder) > 0
                THEN [s5 EXCEPT !.having = d.HavingBuilder,
                                !.havingArgs = d.HavingArgs] ELSE s5
      IN  [q |-> m, db |-> s6]

\* getPKColumn: the caller's column if one is given, else constants.PK
getPKColumn(primaryKeyColumn) ==
    IF Len(primaryKeyColumn) > 0 THEN primaryKeyColumn[1] ELSE "constants.PK"

---------------------------------------------------------------------------
(* The store: what a call reports, and the record of a call *)

NoError == "nil"

StoreError == "store error"

ErrRecordNotFound == "record not found"

\* the process-wide handle set by Init(db): no statement, no error
gormDb == [err |-> NoError, rowsAffected |-> 0, count |-> 0]

\* row counts a Find or Scan may report
RowCounts == {0, 3}

\* totals a Count may report
Counts == {0, 23}

\* Create, CreateInBatches, Delete, Updates: an error, or the affected rows
WriteOutcomes ==
    { [err |-> NoError, rowsAffected |-> n, count |-> 0] : n \in {0, 1} }
      \cup { [err |-> StoreError, rowsAffected |-> 0, count |-> 0] }

\* Take (line 102, 118): the row; when no row matches, zero affected rows
\* with gorm's ErrRecordNotFound set on the handle; or a store error
TakeOutcomes ==
    { [err |-> NoError, rowsAffected |-> 1, count |-> 0],
      [err |-> ErrRecordNotFound, rowsAffected |-> 0, count |-> 0],
      [err |-> StoreError, rowsAffected |-> 0, count |-> 0] }

\* Find, Scan: the rows (none is no error), or a store error
FindOutcomes ==
    { [err |-> NoError, rowsAffected |-> n, count |-> 0] : n \in RowCounts }
      \cup { [err |-> StoreError, rowsAffected |-> 0, count |-> 0] }

\* Count: the total, or a store error that leaves the count at zero
CountOutcomes ==
    { [err |-> NoError, rowsAffected |-> 1, count |-> c] : c \in Counts }
      \cup { [err |-> StoreError, rowsAffected |-> 0, count |-> 0] }

\* the n rows a query returned
Rows(n) == [i \in 1..n |-> i]

\* one call issued to the store: the finishing method, the statement it runs
\* on, for writes the number of entities, the chunk size and the value, and
\* what the store reported
StoreCall(op, stmt, n, batchSize, value, out) ==
    [op |-> op, stmt |-> stmt, n |-> n, batchSize |-> batchSize, value |-> value,
     out |-> out]

---------------------------------------------------------------------------
(* Page and the pagination scope *)

\* a Page nobody passed
NoPage == [Current |-> NoInt, Size |-> NoInt, Total |-> 0, Records |-> <<>>]

\* NewPage(current, size)
NewPage(current, size) ==
    [Current |-> current, Size |-> size, Total |-> 0, Records |-> <<>>]

\* the scope with a zero or negative Size passed on as it is
paginateSizeAsIs(p, stmt) ==
    LET page   == IF LeZero(p.Current) THEN GoInt(1) ELSE p.Current
        offset == Mul(Dec(page), p.Size)
    IN  [stmt EXCEPT !.offset = offset, !.limit = p.Size]

\* paginate(p)(db): normalize at the point of use, then db.Offset(..).Limit(..)
paginate(p, stmt) ==
    LET page     == IF LeZero(p.Current) THEN GoInt(1) ELSE p.Current
        pageSize == IF LeZero(p.Size) THEN GoInt(10) ELSE p.Size
        offset   == Mul(Dec(page), pageSize)
    IN  [stmt EXCEPT !.offset = offset, !.limit = pageSize]

---------------------------------------------------------------------------
(* The facade: each function as its effect on the descriptor, the calls it *)
(* issues and what it returns, given what the store reports               *)

\* the arguments of a facade call, as passed: the Page, the entity or id
\* list, the batch size
Passed(page, list, batchSize) == [page |-> page, list |-> list, batchSize |-> batchSize]

NothingPassed == Passed(NoPage, <<>>, 0)

\* what a facade call returns: the handle, and the record, rows, total or
\* page that go with it; in: the arguments it was called with
Returned(op, in, db, record, rows, total, page) ==
    [op |-> op, in |-> in, db |-> db, record |-> record, rows |-> rows,
     total |-> total, page |-> page]

\* a step that returns nothing of the facade (construction, fluent calls)
NoReturn(op) == Returned(op, NothingPassed, gormDb, "nil", <<>>, 0, NoPage)

defaultBatchSize == 1000

\* the emptiness test left out
IsEmptyNever(list) == FALSE

\* len(entities) == 0, len(ids) == 0
IsEmpty(list) == Len(list) = 0

\* the chunk size InsertBatchSize passes on
ChunkSize(batchSize) == IF batchSize <= 0 THEN defaultBatchSize ELSE batchSize

\* resultDb.RowsAffected == 0: the record returned is nil
RecordOf(db) == IF db.rowsAffected = 0 THEN "nil" ELSE "entity"

\* the count query's error not looked at
CountFailedNever(countDb) == FALSE

\* countDb.Error != nil
CountFailed(countDb) == countDb.err # NoError

\* the total not stored
WithTotalDropped(page, total) == page

\* page.Total = total
WithTotal(page, total) == [page EXCEPT !.Total = total]

\* what a facade function did: the descriptor as left, the calls, the return
Effect(d, cs, r) == [q |-> d, calls |-> cs, ret |-> r]

Insert(d, out) ==
    Effect(d, <<StoreCall("Create", ModelStmt, 1, 0, "entity", out)>>,
           Returned("Insert", NothingPassed, out, "nil", <<>>, 0, NoPage))

InsertBatch(d, entities, out) ==
    LET in == Passed(NoPage, entities, 0)
    IN  IF IsEmpty(entities)
        THEN Effect(d, <<>>, Returned("InsertBatch", in, gormDb, "nil", <<>>, 0, NoPage))
        ELSE Effect(d, <<StoreCall("CreateInBatches", ModelStmt, Len(entities),
                                   defaultBatchSize, "entities", out)>>,
                    Returned("InsertBatch", in, out, "nil", <<>>, 0, NoPage))

InsertBatchSize(d, entities, batchSize, out) ==
    LET in == Passed(NoPage, entities, batchSize)
    IN  IF IsEmpty(entities)
        THEN Effect(d, <<>>,
                    Returned("InsertBatchSize", in, gormDb, "nil", <<>>, 0, NoPage))
        ELSE Effect(d, <<StoreCall("CreateInBatches", ModelStmt, Len(entities),
                                   ChunkSize(batchSize), "entities", out)>>,
                    Returned("InsertBatchSize", in, out, "nil", <<>>, 0, NoPage))

DeleteById(d, id, primaryKeyColumn, out) ==
    Effect(d, <<StoreCall("Delete",
                          Where(ModelStmt, <<getPKColumn(primaryKeyColumn)>>, <<<<id>>>>),
                          0, 0, "none", out)>>,
           Returned("DeleteById", Passed(NoPage, <<id>>, 0), out, "nil", <<>>, 0, NoPage))

\* Delete(q): the top-level builder and arguments as they are, no merge.
\* d is the caller's descriptor, target the one Delete is called with.
Delete(op, in, d, target, out) ==
    Effect(d, <<StoreCall("Delete",
                          Where(ModelStmt, target.QueryBuilder, target.QueryArgs),
                          0, 0, "none", out)>>,
           Returned(op, in, out, "nil", <<>>, 0, NoPage))

DeleteByIds(d, ids, primaryKeyColumn, out) ==
    LET in == Passed(NoPage, ids, 0)
    IN  IF IsEmpty(ids)
        THEN Effect(d, <<>>, Returned("DeleteByIds", in, gormDb, "nil", <<>>, 0, NoPage))
        ELSE Delete("DeleteByIds", in, d,
                    InCond(NewQuery, getPKColumn(primaryKeyColumn), ids), out)

UpdateById(d, id, primaryKeyColumn, out) ==
    Effect(d, <<StoreCall("Updates",
                          Where(ModelStmt, <<getPKColumn(primaryKeyColumn)>>, <<<<id>>>>),
                          0, 0, "entity", out)>>,
           Returned("UpdateById", Passed(NoPage, <<id>>, 0), out, "nil", <<>>, 0, NoPage))

\* Update(q): the top-level builder and arguments as they are, and the map
Update(d, out) ==
    Effect(d, <<StoreCall("Updates", Where(ModelStmt, d.QueryBuilder, d.QueryArgs),
                          0, 0, "UpdateMap", out)>>,
           Returned("Update", NothingPassed, out, "nil", <<>>, 0, NoPage))

SelectById(d, id, out) ==
    Effect(d, <<StoreCall("Take", Where(ModelStmt, <<>>, <<<<id>>>>), 0, 0, "none", out)>>,
           Returned("SelectById", Passed(NoPage, <<id>>, 0), out, RecordOf(out),
                    <<>>, 0, NoPage))

SelectOne(isNil, d, out) ==
    LET b == buildCondition(isNil, d)
    IN  Effect(b.q, <<StoreCall("Take", b.db, 0, 0, "none", out)>>,
               Returned("SelectOne", NothingPassed, out, RecordOf(out), <<>>, 0, NoPage))

\* SelectList and SelectListModel: Find or Scan on the built statement
SelectRows(op, finish, in, isNil, d, out) ==
    LET b == buildCondition(isNil, d)
    IN  Effect(b.q, <<StoreCall(finish, b.db, 0, 0, "none", out)>>,
               Returned(op, in, out, "nil", Rows(out.rowsAffected), 0, NoPage))

SelectList(isNil, d, out) ==
    SelectRows("SelectList", "Find", NothingPassed, isNil, d, out)

SelectListModel(isNil, d, out) ==
    SelectRows("SelectListModel", "Scan", NothingPassed, isNil, d, out)

\* SelectByIds: a new descriptor with one IN predicate, then SelectList;
\* the caller's descriptor d is not involved
SelectByIds(d, ids, primaryKeyColumn, out) ==
    LET e == SelectRows("SelectByIds", "Find", Passed(NoPage, ids, 0), FALSE,
                        InCond(NewQuery, getPKColumn(primaryKeyColumn), ids), out)
    IN  Effect(d, e.calls, e.ret)

SelectCount(isNil, d, out) ==
    LET b == buildCondition(isNil, d)
    IN  Effect(b.q, <<StoreCall("Count", b.db, 0, 0, "none", out)>>,
               Returned("SelectCount", NothingPassed, out, "nil", <<>>, out.count, NoPage))

\* SelectPage and SelectPageModel: count, stop on its error, else the total,
\* a second buildCondition, the pagination scope and Find or Scan
SelectPaged(op, finish, page, isNil, d, countOut, dataOut) ==
    LET c  == SelectCount(isNil, d, countOut)
        in == Passed(page, <<>>, 0)
    IN  IF CountFailed(c.ret.db)
        THEN Effect(c.q, c.calls, Returned(op, in, c.ret.db, "nil", <<>>, 0, page))
        ELSE LET p1 == WithTotal(page, c.ret.total)
                 b  == buildCondition(isNil, c.q)
                 p2 == [p1 EXCEPT !.Records = Rows(dataOut.rowsAffected)]
             IN  Effect(b.q,
                        Append(c.calls, StoreCall(finish, paginate(p1, b.db), 0, 0,
                                                  "none", dataOut)),
                        Returned(op, in, dataOut, "nil", <<>>, 0, p2))

SelectPage(page, isNil, d, countOut, dataOut) ==
    SelectPaged("SelectPage", "Find", page, isNil, d, countOut, dataOut)

SelectPageModel(page, isNil, d, countOut, dataOut) ==
    SelectPaged("SelectPageModel", "Scan", page, isNil, d, countOut, dataOut)

---------------------------------------------------------------------------
(* Inputs of the calls *)

EntityLists == { <<>>, <<"e1">>, <<"e1", "e2">> }

BatchSizes == {-1, 0, 2, 500}

Ids == {"1", "2"}

IdLists == { <<>>, <<"1">>, <<"1", "2">> }

\* the variadic primaryKeyColumn: absent, or one column
PKColumns == { <<>>, <<"uid">> }

\* 2^(IntBits-2) + 1
HugeInt == <<1>> \o [k \in 1..(NumLimbs - 2) |-> 0] \o <<64>>

\* the predicates each builder's fluent calls draw from
TopPreds == { p \in Preds : p.col \in {"active", "age"} }

AndPreds == { p \in Preds : p.col = "age" }

OrPreds == { p \in Preds : p.col = "status" }

\* a Page used before: Total and Records are set
UsedPage == [Current |-> GoInt(3), Size |-> GoInt(10), Total |-> 7, Records |-> <<1>>]

\* Pages over a wider range of Current and Size
WidePageInputs ==
    { NewPage(c, z) : c \in {GoInt(n) : n \in {-3, 0, 2, 3}} \cup {HugeInt},
                      z \in {GoInt(n) : n \in {0, 1, 3, 5, 10}} }
      \cup {UsedPage}

\* the descriptor may be passed to the facade once more
Reusable(d) == Len(d.QueryArgs) <= MaxArgs

---------------------------------------------------------------------------
(* Actions *)

Init ==
    /\ q = NewQuery
    /\ nFluent = 0
    /\ calls = <<>>
    /\ ret = NoReturn("Init")

\* the caller starts a new descriptor
CallNewQuery ==
    /\ q' = NewQuery
    /\ nFluent' = 0
    /\ calls' = <<>>
    /\ ret' = NoReturn("NewQuery")

\* a fluent call: the descriptor changes, the store is not involved
Fluent(op, d) ==
    /\ nFluent < MaxFluent
    /\ q' = d
    /\ nFluent' = nFluent + 1
    /\ calls' = <<>>
    /\ ret' = NoReturn(op)

CallEq == \E p \in TopPreds : Fluent("Eq", AddCond(q, p))

CallAndBracket == \E p \in AndPreds : Fluent("AndBracket", AndBracketCond(q, p))

CallOrBracket == \E p \in OrPreds : Fluent("OrBracket", OrBracketCond(q, p))

CallSelect == Fluent("Select", [q EXCEPT !.SelectColumns = Append(@, "age")])

CallDistinct == Fluent("Distinct", [q EXCEPT !.DistinctColumns = Append(@, "status")])

CallOrderBy == Fluent("OrderBy", [q EXCEPT !.OrderBuilder = @ \o <<"age", "ASC">>])

CallGroup == Fluent("Group", [q EXCEPT !.GroupBuilder = @ \o <<"status">>])

CallHaving ==
    Fluent("Having", [q EXCEPT !.HavingBuilder = @ \o <<"age", ">", "?">>,
                               !.HavingArgs = Append(@, <<"18">>)])

CallSet == Fluent("Set", [q EXCEPT !.UpdateMap = Append(@, <<"age", "0">>)])

\* a facade call: its effect, atomically
Apply(effect) ==
    \E e \in {effect} :
      /\ q' = e.q
      /\ calls' = e.calls
      /\ ret' = e.ret
      /\ UNCHANGED nFluent

CallInsert == \E out \in WriteOutcomes : Apply(Insert(q, out))

CallInsertBatch ==
    \E es \in EntityLists, out \in WriteOutcomes : Apply(InsertBatch(q, es, out))

CallInsertBatchSize ==
    \E es \in EntityLists, bs \in BatchSizes, out \in WriteOutcomes :
        Apply(InsertBatchSize(q, es, bs, out))

CallDeleteById ==
    \E id \in Ids, pk \in PKColumns, out \in WriteOutcomes :
        Apply(DeleteById(q, id, pk, out))

CallDeleteByIds ==
    \E ids \in IdLists, pk \in PKColumns, out \in WriteOutcomes :
        Apply(DeleteByIds(q, ids, pk, out))

CallDelete ==
    \E out \in WriteOutcomes : Apply(Delete("Delete", NothingPassed, q, q, out))

CallUpdateById ==
    \E id \in Ids, pk \in PKColumns, out \in WriteOutcomes :
        Apply(UpdateById(q, id, pk, out))

CallUpdate == \E out \in WriteOutcomes : Apply(Update(q, out))

CallSelectById == \E id \in Ids, out \in TakeOutcomes : Apply(SelectById(q, id, out))

CallSelectByIds ==
    \E ids \in IdLists, pk \in PKColumns, out \in FindOutcomes :
        Apply(SelectByIds(q, ids, pk, out))

\* the reads that take a descriptor: nils says whether the caller's
\* descriptor, a nil one, or either is passed
CallSelectOne(nils) ==
    /\ Reusable(q)
    /\ \E isNil \in nils, out \in TakeOutcomes : Apply(SelectOne(isNil, q, out))

CallSelectList(nils) ==
    /\ Reusable(q)
    /\ \E isNil \in nils, out \in FindOutcomes : Apply(SelectList(isNil, q, out))

CallSelectListModel(nils) ==
    /\ Reusable(q)
    /\ \E isNil \in nils, out \in FindOutcomes : Apply(SelectListModel(isNil, q, out))

CallSelectCount(nils) ==
    /\ Reusable(q)
    /\ \E isNil \in nils, out \in CountOutcomes : Apply(SelectCount(isNil, q, out))

CallSelectPage(pages, nils) ==
    /\ Reusable(q)
    /\ \E page \in pages, isNil \in nils,
          countOut \in CountOutcomes, dataOut \in FindOutcomes :
            Apply(SelectPage(page, isNil, q, countOut, dataOut))

CallSelectPageModel(pages, nils) ==
    /\ Reusable(q)
    /\ \E page \in pages, isNil \in nils,
          countOut \in CountOutcomes, dataOut \in FindOutcomes :
            Apply(SelectPageModel(page, isNil, q, countOut, dataOut))

\* one descriptor through its life: its conditions built by fluent calls,
\* passed to the facade any number of times, replaced by a new one
Next ==
    \/ CallNewQuery
    \/ CallEq
    \/ CallAndBracket
    \/ CallOrBracket
    \/ CallHaving
    \/ CallDelete
    \/ CallUpdate
    \/ CallSelectOne({FALSE})
    \/ CallSelectList({FALSE})
    \/ CallSelectListModel({FALSE})
    \/ CallSelectCount({FALSE})
    \/ CallSelectPage({UsedPage}, {FALSE})
    \/ CallSelectPageModel({UsedPage}, {FALSE})

Spec == Init /\ [][Next]_vars

\* the calls that take no descriptor, and the calls on a descriptor that has
\* no condition: nil, or with clauses and an update map alone
NextDirect ==
    \/ CallNewQuery
    \/ CallSelect
    \/ CallDistinct
    \/ CallOrderBy
    \/ CallGroup
    \/ CallSet
    \/ CallInsert
    \/ CallInsertBatch
    \/ CallInsertBatchSize
    \/ CallDeleteById
    \/ CallDeleteByIds
    \/ CallUpdateById
    \/ CallUpdate
    \/ CallSelectById
    \/ CallSelectByIds
    \/ CallSelectOne(BOOLEAN)
    \/ CallSelectList(BOOLEAN)
    \/ CallSelectListModel(BOOLEAN)
    \/ CallSelectCount(BOOLEAN)

SpecDirect == Init /\ [][NextDirect]_vars

\* the paged reads over the wider range of Pages
NextPaged ==
    \/ CallSelectPage(WidePageInputs, {FALSE})
    \/ CallSelectPageModel(WidePageInputs, {FALSE})

SpecPaged == Init /\ [][NextPaged]_vars

---------------------------------------------------------------------------
(* Vocabulary of the properties *)

PagedOps == {"SelectPage", "SelectPageModel"}

\* the facade functions that call buildCondition once on the caller's descriptor
BuildOnceOps == {"SelectOne", "SelectList", "SelectListModel", "SelectCount"}

\* both queries of a paged read were issued
BothIssued == ret.op \in PagedOps /\ Len(calls) = 2

\* a statement with its offset and limit taken off
Unpaged(stmt) == [stmt EXCEPT !.offset = NoInt, !.limit = NoInt]

\* number of placeholders in a text
RECURSIVE NumPlaceholders(_)
NumPlaceholders(t) ==
    IF t = <<>> THEN 0
    ELSE (IF Head(t) = "?" THEN 1 ELSE 0) + NumPlaceholders(Tail(t))

\* the value each column of Preds is bound to
ValOf(c) == (CHOOSE p \in Preds : p.col = c).val

\* number of places where text t occurs in text u
Occurrences(t, u) ==
    Cardinality({ i \in 1..(Len(u) - Len(t) + 1) : SubSeq(u, i, i + Len(t) - 1) = t })

\* the placeholders of a text that stand outside every parenthesis
RECURSIVE TopPlaceholders(_, _)
TopPlaceholders(t, depth) ==
    IF t = <<>> THEN 0
    ELSE LET d == IF Head(t) = "(" THEN depth + 1
                  ELSE IF Head(t) = ")" THEN depth - 1 ELSE depth
         IN  (IF Head(t) = "?" /\ depth = 0 THEN 1 ELSE 0) + TopPlaceholders(Tail(t), d)

\* the values the placeholders of a text are meant to take, in the order of
\* the text: each placeholder closes a fragment "column operator ?"
RECURSIVE BoundValues(_, _)
BoundValues(t, i) ==
    IF i > Len(t) THEN <<>>
    ELSE (IF t[i] = "?" THEN << <<ValOf(t[i - 2])>> >> ELSE <<>>) \o BoundValues(t, i + 1)

\* each builder of the descriptor has as many placeholders as arguments
Balanced(d) ==
    /\ NumPlaceholders(d.QueryBuilder) = Len(d.QueryArgs)
    /\ NumPlaceholders(d.AndBracketBuilder) = Len(d.AndBracketArgs)
    /\ NumPlaceholders(d.OrBracketBuilder) = Len(d.OrBracketArgs)

---------------------------------------------------------------------------
(* C1 *)

\* C1: in one SelectPage or SelectPageModel call the count query and the data
\* query carry the same condition string and argument list, and the same
\* statement altogether but for the data query's offset and limit.
C1_CountAndDataSameCondition ==
    BothIssued =>
        /\ calls[1].stmt.cond = calls[2].stmt.cond
        /\ calls[1].stmt.args = calls[2].stmt.args
        /\ calls[1].stmt = Unpaged(calls[2].stmt)

---------------------------------------------------------------------------
(* C2 *)

\* C2: whatever facade operations were run on the descriptor, each bracket
\* group is in its top-level condition at most once: the AND-bracket text and
\* the OR-bracket text occur at most once in QueryBuilder, and QueryArgs holds
\* no more merged arguments than the two bracket groups have.
C2_BracketMergedAtMostOnce ==
    /\ Len(q.AndBracketBuilder) > 0 =>
           Occurrences(q.AndBracketBuilder, q.QueryBuilder) <= 1
    /\ Len(q.OrBracketBuilder) > 0 =>
           Occurrences(q.OrBracketBuilder, q.QueryBuilder) <= 1
    /\ Len(q.QueryArgs) - TopPlaceholders(q.QueryBuilder, 0)
           <= Len(q.AndBracketArgs) + Len(q.OrBracketArgs)

---------------------------------------------------------------------------
(* C3 *)

\* C3: for a descriptor whose three builders each have as many placeholders
\* as arguments, every condition buildCondition passes to the store has as
\* many placeholders as arguments, the arguments are the values its
\* placeholders are bound to in the order of the text, and the first
\* condition passed is the top-level text, then the AND-bracket, then the
\* OR-bracket, with the arguments in that same order.
C3_PlaceholdersMatchArguments ==
    [][ (ret'.op \in BuildOnceOps \cup PagedOps /\ Balanced(q)) =>
          /\ \A i \in 1..Len(calls') :
                LET c == calls'[i].stmt
                IN  c.hasWhere =>
                      /\ NumPlaceholders(c.cond) = Len(c.args)
                      /\ BoundValues(c.cond, 1) = c.args
          /\ calls'[1].stmt.hasWhere =>
                /\ calls'[1].stmt.cond =
                     q.QueryBuilder \o q.AndBracketBuilder \o q.OrBracketBuilder
                /\ calls'[1].stmt.args =
                     q.QueryArgs \o q.AndBracketArgs \o q.OrBracketArgs
      ]_vars

\* top-level [true], AND-bracket [18], OR-bracket ["banned"] reach the store
\* as one condition with the arguments [true, 18, "banned"]
C3_Witness ==
    /\ ret.op = "SelectList"
    /\ calls[1].stmt.cond = <<"active", "=", "?", "AND", "(", "age", ">", "?", ")",
                              "OR", "(", "status", "=", "?", ")">>
    /\ calls[1].stmt.args = << <<"true">>, <<"18">>, <<"banned">> >>

---------------------------------------------------------------------------
(* C4 *)

\* C4: when the count query of SelectPage or SelectPageModel reports an
\* error, no data query is issued, the handle returned is the count query's
\* with its error, and the Page's Total and Records are as they were passed.
C4_CountErrorStopsPagedRead ==
    (ret.op \in PagedOps /\ calls[1].out.err # NoError) =>
        /\ Len(calls) = 1
        /\ calls[1].op = "Count"
        /\ ret.db = calls[1].out
        /\ ret.page.Total = ret.in.page.Total
        /\ ret.page.Records = ret.in.page.Records

\* a paged read on a Page used before, whose count query failed
C4_Witness ==
    /\ ret.op = "SelectPage"
    /\ calls[1].out.err = StoreError
    /\ ret.in.page.Total = 7
    /\ ret.page.Records = <<1>>

---------------------------------------------------------------------------
(* C5 *)

\* C5: Delete and Update pass to the store the finalized condition of the
\* descriptor: the condition string and argument list a read (SelectList)
\* passes for the same descriptor, the bracket groups merged in.
C5_DeleteUpdatePassFinalized ==
    ret.op \in {"Delete", "Update"} =>
        LET read == buildCondition(FALSE, q).db
        IN  /\ calls[1].stmt.cond = read.cond
            /\ calls[1].stmt.args = read.args

---------------------------------------------------------------------------
(* C6 *)

\* a non-negative Go int widened to twice the width
Widened(a) == a \o [k \in 1..Len(a) |-> 0]

\* the product of two non-negative Go ints, exact, at twice the width
ExactProduct(a, b) == Mul(Widened(a), Widened(b))

\* the value at twice the width is one a Go int holds
FitsInt(w) == w[NumLimbs] < 128 /\ \A k \in (NumLimbs + 1)..Len(w) : w[k] = 0

\* Current if Current > 0 else 1
NormalPage(page) == IF LeZero(page.Current) THEN GoInt(1) ELSE page.Current

\* Size if Size > 0 else 10
NormalSize(page) == IF LeZero(page.Size) THEN GoInt(10) ELSE page.Size

\* the data query of a paged read on a Page (current, size) carries (offset, limit)
Paginates(current, size, offset, limit) ==
    (BothIssued /\ ret.in.page.Current = GoInt(current) /\ ret.in.page.Size = GoInt(size))
        => (calls[2].stmt.offset = GoInt(offset) /\ calls[2].stmt.limit = GoInt(limit))

\* C6 as stated: for every Page the data query's offset is (p-1)*s and its
\* limit s, with p = Current if Current > 0 else 1 and s = Size if Size > 0
\* else 10, and the offset is never negative.
C6_OffsetLimitEveryPage ==
    BothIssued =>
        LET w == ExactProduct(Dec(NormalPage(ret.in.page)), NormalSize(ret.in.page))
        IN  /\ calls[2].stmt.limit = NormalSize(ret.in.page)
            /\ Widened(calls[2].stmt.offset) = w
            /\ ~IsNeg(calls[2].stmt.offset)

\* C6 amended: the same for every Page whose (p-1)*s is a value Go's int
\* holds; (0,5) gives (0,5), (2,10) gives (10,10), (-3,0) gives (0,10).
C6_OffsetLimitWhenProductFits ==
    /\ BothIssued =>
         LET w == ExactProduct(Dec(NormalPage(ret.in.page)), NormalSize(ret.in.page))
         IN  /\ calls[2].stmt.limit = NormalSize(ret.in.page)
             /\ FitsInt(w) => /\ Widened(calls[2].stmt.offset) = w
                              /\ ~IsNeg(calls[2].stmt.offset)
    /\ Paginates(0, 5, 0, 5)
    /\ Paginates(2, 10, 10, 10)
    /\ Paginates(-3, 0, 0, 10)
    /\ Paginates(3, 10, 20, 10)

\* a Page built with invalid values, corrected at the point of use
C6_Witness ==
    /\ BothIssued
    /\ ret.in.page.Current = GoInt(-3)
    /\ ret.in.page.Size = GoInt(0)
    /\ calls[2].stmt.offset = GoInt(0)
    /\ calls[2].stmt.limit = GoInt(10)

---------------------------------------------------------------------------
(* C7 *)

\* the single-row fetch ran and matched no row (the store itself did not fail)
MatchedNoRow ==
    /\ ret.op \in {"SelectById", "SelectOne"}
    /\ calls[1].out.rowsAffected = 0
    /\ calls[1].out.err # StoreError

\* C7: SelectById and SelectOne return a nil record exactly when the store
\* reports zero affected rows, and a fetch that matched no row is returned as
\* a nil record with zero affected rows and no error.
C7_NotFoundIsAbsentNotError ==
    /\ ret.op \in {"SelectById", "SelectOne"} =>
           (ret.record = "nil" <=> ret.db.rowsAffected = 0)
    /\ MatchedNoRow =>
           /\ ret.record = "nil"
           /\ ret.db.rowsAffected = 0
           /\ ret.db.err = NoError

---------------------------------------------------------------------------
(* C8 *)

\* C8: InsertBatch, InsertBatchSize and DeleteByIds with an empty list issue
\* no store call and return the handle without an error, whatever the batch
\* size or primary-key column; with a non-empty list they issue exactly one
\* store call, and InsertBatchSize with batchSize <= 0 passes 1000.
C8_EmptyInputIsNoOp ==
    ret.op \in {"InsertBatch", "InsertBatchSize", "DeleteByIds"} =>
        /\ ret.in.list = <<>> => (calls = <<>> /\ ret.db.err = NoError)
        /\ ret.in.list # <<>> => Len(calls) = 1
        /\ (ret.op = "InsertBatch" /\ ret.in.list # <<>>) => calls[1].batchSize = 1000
        /\ (ret.op = "InsertBatchSize" /\ ret.in.list # <<>>) =>
               calls[1].batchSize =
                   (IF ret.in.batchSize <= 0 THEN 1000 ELSE ret.in.batchSize)

\* InsertBatchSize with an empty list and a batch size: nothing is issued
C8_Witness ==
    /\ ret.op = "InsertBatchSize"
    /\ ret.in.list = <<>>
    /\ ret.in.batchSize = -1
    /\ calls = <<>>

---------------------------------------------------------------------------
(* C9 *)

\* C9: when the count query succeeds, the Page returned has Total equal to
\* the count it reported, however many records the data query returns, and
\* the count query carries no offset and no limit.
C9_TotalIsCount ==
    (ret.op \in PagedOps /\ calls[1].out.err = NoError) =>
        /\ calls[1].op = "Count"
        /\ calls[1].stmt.offset = NoInt
        /\ calls[1].stmt.limit = NoInt
        /\ ret.page.Total = calls[1].out.count

\* count 23, page 3, size 10: offset 20, limit 10, Total 23 with 3 records
C9_Witness ==
    /\ ret.op = "SelectPage"
    /\ ret.in.page.Current = GoInt(3)
    /\ ret.in.page.Size = GoInt(10)
    /\ calls[1].out.count = 23
    /\ calls[2].stmt.offset = GoInt(20)
    /\ calls[2].stmt.limit = GoInt(10)
    /\ ret.page.Total = 23
    /\ Len(ret.page.Records) = 3

---------------------------------------------------------------------------
(* C10 *)

\* C10: for every descriptor, one with no top-level predicate included, the
\* condition buildCondition passes is the top-level text followed by each
\* non-empty bracket group, AND-bracket before OR-bracket, with the
\* arguments alike; no WHERE is applied only when all three builders are
\* empty.
C10_FinalizeMergesEveryGroup ==
    [][ ret'.op \in BuildOnceOps \cup PagedOps =>
          LET c == calls'[1].stmt
          IN  /\ c.hasWhere <=> (Len(q.QueryBuilder) > 0 \/ Len(q.AndBracketBuilder) > 0
                                   \/ Len(q.OrBracketBuilder) > 0)
              /\ c.cond = q.QueryBuilder \o q.AndBracketBuilder \o q.OrBracketBuilder
              /\ c.args = q.QueryArgs \o q.AndBracketArgs \o q.OrBracketArgs
      ]_vars

=============================================================================
